---- MODULE Spec2Model ----
(***************************************************************************)
(* Model of project-analyzer/scripts/analyze_project.py: ProjectAnalyzer   *)
(* walks a project directory and assembles a report (project type,         *)
(* extension histogram, entry points, config catalog, dependencies, tree,  *)
(* architecture notes).                                                    *)
(*                                                                         *)
(* File names and requirements lines are sequences of one-character        *)
(* strings, so that startswith, suffix, lower, split, strip, substring     *)
(* search and string comparison are computed as Python computes them.      *)
(* A path is the sequence of its components below the project root.        *)
(***************************************************************************)
EXTENDS Integers, Sequences, FiniteSets, TLC

VARIABLES
  tree,          \* the directory tree: set of [path, kind] entries below the root
  denied,        \* directories whose enumeration raises PermissionError
  order,         \* the order in which the filesystem enumerates directory entries
  pkg,           \* content of <root>/package.json
  req,           \* lines of <root>/requirements.txt
  argc,          \* len(sys.argv) of the invocation
  root_kind,     \* what the path argument names: "dir", "file" or "missing"
  pc,            \* position inside analyze()
  project_type,  \* self.project_type (Unset until assigned)
  file_stats,    \* self.file_stats, in insertion order
  entry_points,  \* self.entry_points
  config_files,  \* self.config_files
  dependencies,  \* self.dependencies
  report,        \* the dict returned by analyze() (NoReport before it returns)
  first_report,  \* the report of the first run, kept by the observer
  runs,          \* number of analyze() runs started
  fresh,         \* TRUE when the current run started on a new ProjectAnalyzer
  returned       \* the value the first report had when analyze() returned it

vars == <<tree, denied, order, pkg, req, argc, root_kind, pc, project_type, file_stats,
          entry_points, config_files, dependencies, report, first_report, runs, fresh,
          returned>>

inputs == <<tree, denied, pkg, req, argc, root_kind>>

----------------------------------------------------------------------------
(* Characters and Python string operations *)

\* The characters used, in code-point order (Python compares str by code point).
AsciiOrder ==
  << "\n", " ", "#", "-", ".", "/",
     "0", "1", "2", "3", "4", "5", "6", "7", "8", "9", "=", ">",
     "A", "B", "C", "D", "E", "F", "G", "H", "I", "J", "K", "L", "M",
     "N", "O", "P", "Q", "R", "S", "T", "U", "V", "W", "X", "Y", "Z", "_",
     "a", "b", "c", "d", "e", "f", "g", "h", "i", "j", "k", "l", "m",
     "n", "o", "p", "q", "r", "s", "t", "u", "v", "w", "x", "y", "z" >>

UpperCase ==
  << "A", "B", "C", "D", "E", "F", "G", "H", "I", "J", "K", "L", "M",
     "N", "O", "P", "Q", "R", "S", "T", "U", "V", "W", "X", "Y", "Z" >>

LowerCase ==
  << "a", "b", "c", "d", "e", "f", "g", "h", "i", "j", "k", "l", "m",
     "n", "o", "p", "q", "r", "s", "t", "u", "v", "w", "x", "y", "z" >>

Ord == [c \in {AsciiOrder[i] : i \in 1..Len(AsciiOrder)} |->
          CHOOSE i \in 1..Len(AsciiOrder) : AsciiOrder[i] = c]

\* str.__lt__: lexicographic comparison by code point
StrLess(a, b) ==
  \E k \in 1..Len(b) :
    /\ \A j \in 1..(k - 1) : j <= Len(a) /\ a[j] = b[j]
    /\ (k > Len(a) \/ Ord[a[k]] < Ord[b[k]])

\* str.lower()
LowerChar(c) ==
  IF \E i \in 1..Len(UpperCase) : UpperCase[i] = c
    THEN LowerCase[CHOOSE i \in 1..Len(UpperCase) : UpperCase[i] = c]
    ELSE c

Lower(s) == [i \in 1..Len(s) |-> LowerChar(s[i])]

\* str.startswith(p)
StartsWith(s, p) == Len(s) >= Len(p) /\ SubSeq(s, 1, Len(p)) = p

\* the positions at which sub occurs in s
Occurrences(s, sub) ==
  {i \in 1..(Len(s) - Len(sub) + 1) : SubSeq(s, i, i + Len(sub) - 1) = sub}

\* sub in s
Contains(s, sub) == Occurrences(s, sub) # {}

Min(S) == CHOOSE x \in S : \A y \in S : x <= y

Max(S) == CHOOSE x \in S : \A y \in S : x >= y

\* s.split(sep)[0]: the part of s before the first occurrence of sep
SplitFirst(s, sep) ==
  IF Contains(s, sep) THEN SubSeq(s, 1, Min(Occurrences(s, sep)) - 1) ELSE s

Whitespace == {" ", "\n"}

\* str.strip()
Strip(s) ==
  LET keep == {i \in 1..Len(s) : s[i] \notin Whitespace}
  IN IF keep = {} THEN <<>> ELSE SubSeq(s, Min(keep), Max(keep))

\* PurePath.suffix: from the last dot, unless it is the first or the last character
Suffix(name) ==
  LET dots == {i \in 1..Len(name) : name[i] = "."}
  IN IF dots # {} /\ 1 < Max(dots) /\ Max(dots) < Len(name)
       THEN SubSeq(name, Max(dots), Len(name))
       ELSE <<>>

\* seq[:n]
Take(s, n) == SubSeq(s, 1, IF Len(s) < n THEN Len(s) ELSE n)

Range(s) == {s[i] : i \in 1..Len(s)}

----------------------------------------------------------------------------
(* File-name literals *)

n_dot_git == <<".", "g", "i", "t">>

n_node_modules == <<"n", "o", "d", "e", "_", "m", "o", "d", "u", "l", "e", "s">>

n___pycache__ == <<"_", "_", "p", "y", "c", "a", "c", "h", "e", "_", "_">>

n_dot_venv == <<".", "v", "e", "n", "v">>

n_venv == <<"v", "e", "n", "v">>

n_dist == <<"d", "i", "s", "t">>

n_build == <<"b", "u", "i", "l", "d">>

n_dot_next == <<".", "n", "e", "x", "t">>

n_coverage == <<"c", "o", "v", "e", "r", "a", "g", "e">>

n_dot_pytest_cache == <<".", "p", "y", "t", "e", "s", "t", "_", "c", "a", "c", "h", "e">>

n_vendor == <<"v", "e", "n", "d", "o", "r">>

n_target == <<"t", "a", "r", "g", "e", "t">>

n_bin == <<"b", "i", "n">>

n_obj == <<"o", "b", "j">>

n_dot_env == <<".", "e", "n", "v">>

n_dot_env_example == <<".", "e", "n", "v", ".", "e", "x", "a", "m", "p", "l", "e">>

n_package_json == <<"p", "a", "c", "k", "a", "g", "e", ".", "j", "s", "o", "n">>

n_Cargo_toml == <<"C", "a", "r", "g", "o", ".", "t", "o", "m", "l">>

n_go_mod == <<"g", "o", ".", "m", "o", "d">>

n_pom_xml == <<"p", "o", "m", ".", "x", "m", "l">>

n_build_gradle == <<"b", "u", "i", "l", "d", ".", "g", "r", "a", "d", "l", "e">>

n_requirements_txt == <<"r", "e", "q", "u", "i", "r", "e", "m", "e", "n", "t", "s", ".", "t", "x", "t">>

n_pyproject_toml == <<"p", "y", "p", "r", "o", "j", "e", "c", "t", ".", "t", "o", "m", "l">>

n_setup_py == <<"s", "e", "t", "u", "p", ".", "p", "y">>

n_Gemfile == <<"G", "e", "m", "f", "i", "l", "e">>

n_main_py == <<"m", "a", "i", "n", ".", "p", "y">>

n_app_py == <<"a", "p", "p", ".", "p", "y">>

n_server_py == <<"s", "e", "r", "v", "e", "r", ".", "p", "y">>

n_run_py == <<"r", "u", "n", ".", "p", "y">>

n___init___py == <<"_", "_", "i", "n", "i", "t", "_", "_", ".", "p", "y">>

n_index_js == <<"i", "n", "d", "e", "x", ".", "j", "s">>

n_index_ts == <<"i", "n", "d", "e", "x", ".", "t", "s">>

n_server_js == <<"s", "e", "r", "v", "e", "r", ".", "j", "s">>

n_app_js == <<"a", "p", "p", ".", "j", "s">>

n_main_js == <<"m", "a", "i", "n", ".", "j", "s">>

n_main_go == <<"m", "a", "i", "n", ".", "g", "o">>

n_main_rs == <<"m", "a", "i", "n", ".", "r", "s">>

n_Main_java == <<"M", "a", "i", "n", ".", "j", "a", "v", "a">>

n_Program_cs == <<"P", "r", "o", "g", "r", "a", "m", ".", "c", "s">>

n_index_html == <<"i", "n", "d", "e", "x", ".", "h", "t", "m", "l">>

n_index_php == <<"i", "n", "d", "e", "x", ".", "p", "h", "p">>

n_tsconfig_json == <<"t", "s", "c", "o", "n", "f", "i", "g", ".", "j", "s", "o", "n">>

n_webpack_config_js == <<"w", "e", "b", "p", "a", "c", "k", ".", "c", "o", "n", "f", "i", "g", ".", "j", "s">>

n_vite_config_js == <<"v", "i", "t", "e", ".", "c", "o", "n", "f", "i", "g", ".", "j", "s">>

n_next_config_js == <<"n", "e", "x", "t", ".", "c", "o", "n", "f", "i", "g", ".", "j", "s">>

n_Pipfile == <<"P", "i", "p", "f", "i", "l", "e">>

n_composer_json == <<"c", "o", "m", "p", "o", "s", "e", "r", ".", "j", "s", "o", "n">>

n_docker_compose_yml == <<"d", "o", "c", "k", "e", "r", "-", "c", "o", "m", "p", "o", "s", "e", ".", "y", "m", "l">>

n_Dockerfile == <<"D", "o", "c", "k", "e", "r", "f", "i", "l", "e">>

n_dot_eslintrc == <<".", "e", "s", "l", "i", "n", "t", "r", "c">>

n_dot_prettierrc == <<".", "p", "r", "e", "t", "t", "i", "e", "r", "r", "c">>

n_jest_config_js == <<"j", "e", "s", "t", ".", "c", "o", "n", "f", "i", "g", ".", "j", "s">>

n_pytest_ini == <<"p", "y", "t", "e", "s", "t", ".", "i", "n", "i">>

n_README_md == <<"R", "E", "A", "D", "M", "E", ".", "m", "d">>

n_src == <<"s", "r", "c">>

n_components == <<"c", "o", "m", "p", "o", "n", "e", "n", "t", "s">>

n_api == <<"a", "p", "i">>

n_routes == <<"r", "o", "u", "t", "e", "s">>

n_models == <<"m", "o", "d", "e", "l", "s">>

n_tests == <<"t", "e", "s", "t", "s">>

n_test == <<"t", "e", "s", "t">>

n_docs == <<"d", "o", "c", "s">>

n_dot_csproj == <<".", "c", "s", "p", "r", "o", "j">>

n_dot_py == <<".", "p", "y">>

n_dot_js == <<".", "j", "s">>

n_dot_ts == <<".", "t", "s">>

n_dot_java == <<".", "j", "a", "v", "a">>

n_dot_go == <<".", "g", "o">>

n_dot_rs == <<".", "r", "s">>

n_dot_rb == <<".", "r", "b">>

n_dot_php == <<".", "p", "h", "p">>

n_App_csproj == <<"A", "p", "p", ".", "c", "s", "p", "r", "o", "j">>

n_a_py == <<"a", ".", "p", "y">>

n_b_js == <<"b", ".", "j", "s">>

n_B_PY == <<"B", ".", "P", "Y">>

n_dot_cache == <<".", "c", "a", "c", "h", "e">>

n_lib == <<"l", "i", "b">>

n_d == <<"d">>

n_x_go == <<"x", ".", "g", "o">>

n_notes == <<"n", "o", "t", "e", "s">>

n_proj == <<"p", "r", "o", "j">>

----------------------------------------------------------------------------
(* Program constants and tables *)

\* self.ignore_dirs
ignore_dirs ==
  { n_dot_git, n_node_modules, n___pycache__, n_dot_venv, n_venv, n_dist, n_build,
    n_dot_next, n_coverage, n_dot_pytest_cache, n_vendor, n_target, n_bin, n_obj }

\* the hidden names _scan_directory still considers
AllowedHidden == {n_dot_env, n_dot_env_example}

\* default max_depth of _scan_directory
ScanMaxDepth == 5

\* default max_depth of _get_tree_structure
TreeMaxDepth == 3

\* items[:20] in add_to_tree
TreeMaxItems == 20

\* list(deps.keys())[:10]
NpmCap == 10

\* deps[:15]
PipCap == 15

Unset == "<unset>"

\* ext_map of _identify_project_type
ext_map ==
  [e \in {n_dot_py, n_dot_js, n_dot_ts, n_dot_java, n_dot_go, n_dot_rs, n_dot_rb, n_dot_php} |->
     CASE e = n_dot_py -> "Python Project"
       [] e = n_dot_js -> "JavaScript Project"
       [] e = n_dot_ts -> "TypeScript Project"
       [] e = n_dot_java -> "Java Project"
       [] e = n_dot_go -> "Go Project"
       [] e = n_dot_rs -> "Rust Project"
       [] e = n_dot_rb -> "Ruby Project"
       [] e = n_dot_php -> "PHP Project"]

\* entry_candidates of _find_entry_points
entry_candidates ==
  { n_main_py, n_app_py, n_server_py, n_run_py, n___init___py,
    n_index_js, n_index_ts, n_server_js, n_app_js, n_main_js,
    n_main_go, n_main_rs, n_Main_java, n_Program_cs,
    n_index_html, n_index_php }

\* config_patterns of _analyze_config_files
config_patterns ==
  (n_package_json :> "Node.js dependencies and scripts") @@
  (n_tsconfig_json :> "TypeScript configuration") @@
  (n_webpack_config_js :> "Webpack bundler configuration") @@
  (n_vite_config_js :> "Vite bundler configuration") @@
  (n_next_config_js :> "Next.js framework configuration") @@
  (n_requirements_txt :> "Python dependencies") @@
  (n_pyproject_toml :> "Python project metadata and dependencies") @@
  (n_setup_py :> "Python package setup") @@
  (n_Pipfile :> "Pipenv dependencies") @@
  (n_Cargo_toml :> "Rust dependencies and package info") @@
  (n_go_mod :> "Go module dependencies") @@
  (n_pom_xml :> "Maven dependencies") @@
  (n_build_gradle :> "Gradle build configuration") @@
  (n_Gemfile :> "Ruby dependencies") @@
  (n_composer_json :> "PHP dependencies") @@
  (n_dot_env :> "Environment variables") @@
  (n_dot_env_example :> "Example environment variables") @@
  (n_docker_compose_yml :> "Docker services configuration") @@
  (n_Dockerfile :> "Docker image definition") @@
  (n_dot_eslintrc :> "ESLint code quality rules") @@
  (n_dot_prettierrc :> "Prettier code formatting") @@
  (n_jest_config_js :> "Jest testing framework") @@
  (n_pytest_ini :> "Pytest configuration") @@
  (n_README_md :> "Project documentation")

----------------------------------------------------------------------------
(* The filesystem under self.project_path *)

\* self.project_path itself, as a path below the root
Root == <<>>

\* Path.name
NameOf(p) == p[Len(p)]

\* os.path.dirname
DirName(p) == SubSeq(p, 1, Len(p) - 1)

IsDir(p) == \E e \in tree : e.path = p /\ e.kind = "dir"

IsFile(p) == \E e \in tree : e.path = p /\ e.kind = "file"

\* Path.exists()
Exists(p) == p = Root \/ \E e \in tree : e.path = p

\* the names found in directory p
ChildNames(p) ==
  {NameOf(e.path) : e \in {x \in tree : Len(x.path) = Len(p) + 1 /\ DirName(x.path) = p}}

RECURSIVE SortNames(_)
\* sorted(names)
SortNames(S) ==
  IF S = {} THEN <<>>
  ELSE LET m == CHOOSE x \in S : \A y \in S \ {x} : StrLess(x, y)
       IN <<m>> \o SortNames(S \ {m})

Reverse(s) == [i \in 1..Len(s) |-> s[Len(s) + 1 - i]]

\* The orders in which the filesystem may enumerate a directory.
EnumOrders == {"forward", "reverse"}

\* os.listdir / os.scandir: the names in p, in the filesystem's order
ListDir(p) ==
  IF order = "forward" THEN SortNames(ChildNames(p)) ELSE Reverse(SortNames(ChildNames(p)))

FilterSeq(s, Keep(_)) == SelectSeq(s, Keep)

----------------------------------------------------------------------------
(* _scan_directory *)

\* self.file_stats[ext] += 1 on a defaultdict(int); a dict keeps insertion order
Bump(stats, ext) ==
  IF \E i \in 1..Len(stats) : stats[i].ext = ext
    THEN [i \in 1..Len(stats) |->
            IF stats[i].ext = ext THEN [stats[i] EXCEPT !.count = @ + 1] ELSE stats[i]]
    ELSE Append(stats, [ext |-> ext, count |-> 1])

\* item.name.startswith('.') and item.name not in {'.env', '.env.example'}
SkippedHidden(name) == StartsWith(name, <<".">>) /\ name \notin AllowedHidden

RECURSIVE _scan_directory(_, _, _), ScanItems(_, _, _, _)
\* the loop body of _scan_directory over path.iterdir()
ScanItems(stats, path, names, depth) ==
  IF names = <<>> THEN stats
  ELSE LET name == Head(names)
           item == path \o <<name>>
       IN IF SkippedHidden(name)
            THEN ScanItems(stats, path, Tail(names), depth)
          ELSE IF IsDir(item) /\ name \notin ignore_dirs
            THEN ScanItems(_scan_directory(stats, item, depth + 1), path, Tail(names), depth)
          ELSE IF IsFile(item)
            THEN ScanItems(Bump(stats, Lower(Suffix(name))), path, Tail(names), depth)
          ELSE ScanItems(stats, path, Tail(names), depth)

\* faulty variant of _scan_directory: the depth test stops one level early
ScanDirectoryStopsEarly(stats, path, depth) ==
  IF depth >= ScanMaxDepth THEN stats
  ELSE IF path \in denied THEN stats
  ELSE ScanItems(stats, path, ListDir(path), depth)

\* _scan_directory(path, depth, max_depth): the histogram after scanning path
_scan_directory(stats, path, depth) ==
  IF depth > ScanMaxDepth THEN stats
  ELSE IF path \in denied THEN stats
  ELSE ScanItems(stats, path, ListDir(path), depth)

----------------------------------------------------------------------------
(* _identify_project_type *)

\* root_files = {f.name for f in self.project_path.iterdir() if f.is_file()}
RootFiles == {n \in ChildNames(Root) : IsFile(<<n>>)}

\* the package.json branch: the label assigned, or cur when nothing is assigned
PackageJsonType(p, cur) ==
  IF p.kind # "object" /\ p.kind # "array" THEN "JavaScript Project"
  ELSE IF p.kind = "array" THEN cur
  ELSE IF p.dependencies.tag = "absent" /\ p.devDependencies.tag = "absent" THEN cur
  ELSE IF p.dependencies.tag = "notmapping" \/ p.devDependencies.tag = "notmapping"
    THEN "JavaScript Project"
  ELSE LET deps == Range(p.dependencies.keys) \cup Range(p.devDependencies.keys)
       IN IF "react" \in deps \/ "next" \in deps THEN "React/Next.js Project"
          ELSE IF "vue" \in deps THEN "Vue.js Project"
          ELSE IF "express" \in deps THEN "Node.js/Express Project"
          ELSE "Node.js Project"

\* max(self.file_stats.items(), key=lambda x: x[1]): the first item of maximal count
MostCommon(stats) ==
  stats[Min({i \in 1..Len(stats) : \A j \in 1..Len(stats) : stats[j].count <= stats[i].count})]

\* the fallback branch: most common extension through ext_map
FallbackType(stats) ==
  IF stats # <<>>
    THEN LET ext == MostCommon(stats).ext
         IN IF ext \in DOMAIN ext_map THEN ext_map[ext] ELSE "Unknown Project Type"
    ELSE "Unknown Project Type"

\* '.csproj' in str(root_files): a substring test on the repr of the set of names
CsprojInRootFiles(root_files) == \E n \in root_files : Contains(n, n_dot_csproj)

\* self.project_type after _identify_project_type, cur being its value before
_identify_project_type(root_files, p, stats, cur) ==
  IF n_package_json \in root_files THEN PackageJsonType(p, cur)
  ELSE IF n_Cargo_toml \in root_files THEN "Rust Project"
  ELSE IF n_go_mod \in root_files THEN "Go Project"
  ELSE IF n_pom_xml \in root_files \/ n_build_gradle \in root_files THEN "Java Project"
  ELSE IF n_requirements_txt \in root_files \/ n_pyproject_toml \in root_files
          \/ n_setup_py \in root_files THEN "Python Project"
  ELSE IF n_Gemfile \in root_files THEN "Ruby Project"
  ELSE IF CsprojInRootFiles(root_files) THEN "C# Project"
  ELSE FallbackType(stats)

----------------------------------------------------------------------------
(* os.walk, _find_entry_points, _analyze_config_files *)

RECURSIVE Walk(_, _), WalkEach(_, _, _)
\* os.walk(top), topdown, errors ignored; prune: dirs[:] = [d not in ignore_dirs]
Walk(top, prune) ==
  IF top \in denied THEN <<>>
  ELSE LET names == ListDir(top)
           dirs == SelectSeq(names, LAMBDA n : IsDir(top \o <<n>>))
           files == SelectSeq(names, LAMBDA n : ~IsDir(top \o <<n>>))
           kept == IF prune THEN SelectSeq(dirs, LAMBDA d : d \notin ignore_dirs) ELSE dirs
       IN <<[root |-> top, dirs |-> kept, files |-> files]>> \o WalkEach(top, kept, prune)

WalkEach(top, dirs, prune) ==
  IF dirs = <<>> THEN <<>>
  ELSE Walk(top \o <<Head(dirs)>>, prune) \o WalkEach(top, Tail(dirs), prune)

RECURSIVE EntryMatches(_)
\* the rel_paths appended by _find_entry_points, in walk order
EntryMatches(walk) ==
  IF walk = <<>> THEN <<>>
  ELSE LET w == Head(walk)
           sel == SelectSeq(w.files, LAMBDA f : f \in entry_candidates)
       IN [i \in 1..Len(sel) |-> w.root \o <<sel[i]>>] \o EntryMatches(Tail(walk))

\* faulty variant of _find_entry_points: the walk does not prune the ignored directories
FindEntryPointsUnpruned(eps) == eps \o EntryMatches(Walk(Root, FALSE))

\* self.entry_points after _find_entry_points
_find_entry_points(eps) == eps \o EntryMatches(Walk(Root, TRUE))

\* faulty variant of ConfigLevel: the level test compares the grandparent with the root
ConfigLevelTooDeep(root) ==
  ~(root # Root /\ DirName(root) # Root /\ DirName(DirName(root)) # Root)

\* "only check root and first level": the walked directories that are not skipped
ConfigLevel(root) == ~(root # Root /\ DirName(root) # Root)

\* the rel_paths recorded by _analyze_config_files
ConfigMatches(walk) ==
  UNION {{walk[i].root \o <<f>> : f \in {g \in Range(walk[i].files) : g \in DOMAIN config_patterns}}
           : i \in {j \in 1..Len(walk) : ConfigLevel(walk[j].root)}}

\* self.config_files after _analyze_config_files
_analyze_config_files(cfg) ==
  [p \in ConfigMatches(Walk(Root, FALSE)) |-> config_patterns[NameOf(p)]] @@ cfg

----------------------------------------------------------------------------
(* _analyze_dependencies *)

\* pkg.get(field, {}) followed by .keys(): the keys, when the value is a dict
KeysOf(field) == IF field.tag = "absent" THEN <<>> ELSE field.keys

\* whether the npm try-block completes without raising
NpmParses(p) ==
  /\ IsFile(<<n_package_json>>)
  /\ p.kind = "object"
  /\ p.dependencies.tag # "notmapping"
  /\ p.devDependencies.tag # "notmapping"

\* faulty variant of NpmValue: the lists are not cut to the first ten names
NpmValueUncapped(p) ==
  [dependencies |-> KeysOf(p.dependencies), devDependencies |-> KeysOf(p.devDependencies)]

\* self.dependencies['npm']
NpmValue(p) ==
  [dependencies |-> Take(KeysOf(p.dependencies), NpmCap),
   devDependencies |-> Take(KeysOf(p.devDependencies), NpmCap)]

\* line.split('==')[0].split('>=')[0].strip()
PinStrip(line) == Strip(SplitFirst(SplitFirst(line, <<"=", "=">>), <<">", "=">>))

\* if line.strip() and not line.startswith('#')
KeptLine(line) == Strip(line) # <<>> /\ ~StartsWith(line, <<"#">>)

\* the list comprehension over the lines of requirements.txt
PipNames(lines) ==
  LET kept == SelectSeq(lines, KeptLine)
  IN [i \in 1..Len(kept) |-> PinStrip(kept[i])]

\* self.dependencies['pip']
PipValue(lines) == Take(PipNames(lines), PipCap)

\* faulty variant of NpmDependencies: a manifest that fails to parse leaves an empty npm entry
NpmDependenciesPartial(deps) ==
  IF Exists(<<n_package_json>>)
    THEN ("npm" :> (IF NpmParses(pkg) THEN NpmValue(pkg)
                    ELSE [dependencies |-> <<>>, devDependencies |-> <<>>])) @@ deps
    ELSE deps

\* the Node.js block of _analyze_dependencies
NpmDependencies(deps) ==
  IF Exists(<<n_package_json>>) /\ NpmParses(pkg)
    THEN ("npm" :> NpmValue(pkg)) @@ deps
    ELSE deps

\* the Python block of _analyze_dependencies
PipDependencies(deps) ==
  IF Exists(<<n_requirements_txt>>) /\ IsFile(<<n_requirements_txt>>)
    THEN ("pip" :> PipValue(req)) @@ deps
    ELSE deps

\* self.dependencies after _analyze_dependencies
_analyze_dependencies(deps) == PipDependencies(NpmDependencies(deps))

----------------------------------------------------------------------------
(* _get_tree_structure *)

\* the box-drawing characters, each one character of a line
BoxUpRight == "U+2514"

BoxVertRight == "U+251C"

BoxHoriz == "U+2500"

BoxVert == "U+2502"

\* "└── "
LastConnector == <<BoxUpRight, BoxHoriz, BoxHoriz, " ">>

\* "├── "
MidConnector == <<BoxVertRight, BoxHoriz, BoxHoriz, " ">>

\* "    "
LastIndent == <<" ", " ", " ", " ">>

\* "│   "
MidIndent == <<BoxVert, " ", " ", " ">>

\* faulty variant of TreeItems: the sort key is the name alone
TreeItemsByName(path) ==
  SelectSeq(SortNames(ChildNames(path)),
            LAMBDA n : ~StartsWith(n, <<".">>) /\ n \notin ignore_dirs)

\* sorted(path.iterdir(), key=lambda x: (not x.is_dir(), x.name)), then the filter
\* not i.name.startswith('.') and i.name not in self.ignore_dirs
TreeItems(path) ==
  LET names == ChildNames(path)
      sorted == SortNames({n \in names : IsDir(path \o <<n>>)})
                  \o SortNames({n \in names : ~IsDir(path \o <<n>>)})
  IN SelectSeq(sorted, LAMBDA n : ~StartsWith(n, <<".">>) /\ n \notin ignore_dirs)

RECURSIVE add_to_tree(_, _, _), AddItems(_, _, _, _, _)
\* the loop of add_to_tree over enumerate(items[:20]), from index i (1-based)
AddItems(path, items, i, prefix, depth) ==
  IF i > Len(Take(items, TreeMaxItems)) THEN <<>>
  ELSE LET name == items[i]
           item == path \o <<name>>
           is_last == (i - 1 = Len(items) - 1)
           current_prefix == IF is_last THEN LastConnector ELSE MidConnector
           line == prefix \o current_prefix \o name \o (IF IsDir(item) THEN <<"/">> ELSE <<>>)
           extension_prefix == IF is_last THEN LastIndent ELSE MidIndent
           below == IF IsDir(item)
                      THEN add_to_tree(item, prefix \o extension_prefix, depth + 1)
                      ELSE <<>>
       IN <<line>> \o below \o AddItems(path, items, i + 1, prefix, depth)

\* add_to_tree(path, prefix, depth): the lines appended for the subtree of path
add_to_tree(path, prefix, depth) ==
  IF depth >= TreeMaxDepth THEN <<>>
  ELSE IF path \in denied THEN <<>>
  ELSE AddItems(path, TreeItems(path), 1, prefix, depth)

\* self.project_path.name
ProjectName == n_proj

\* _get_tree_structure()
_get_tree_structure == <<ProjectName \o <<"/">>>> \o add_to_tree(Root, <<>>, 0)

----------------------------------------------------------------------------
(* _generate_architecture_notes *)

_generate_architecture_notes ==
  (IF Exists(<<n_components>>) \/ Exists(<<n_src, n_components>>)
     THEN <<"Frontend component-based architecture detected">> ELSE <<>>)
  \o (IF Exists(<<n_api>>) \/ Exists(<<n_routes>>)
        THEN <<"API/routing layer present">> ELSE <<>>)
  \o (IF Exists(<<n_models>>) \/ Exists(<<n_src, n_models>>)
        THEN <<"Data models layer detected">> ELSE <<>>)
  \o (IF Exists(<<n_tests>>) \/ Exists(<<n_test>>)
        THEN <<"Test suite present">> ELSE <<>>)
  \o (IF Exists(<<n_docs>>) THEN <<"Documentation directory found">> ELSE <<>>)

----------------------------------------------------------------------------
(* Inputs: bounded sets of project directories and manifest contents *)

n_App_csproj_user == <<"A", "p", "p", ".", "c", "s", "p", "r", "o", "j", ".", "u", "s", "e", "r">>

File(p) == [path |-> p, kind |-> "file"]

Dir(p) == [path |-> p, kind |-> "dir"]

\* the entries together with the directories that lead to them
Closure(S) ==
  S \cup UNION {{Dir(SubSeq(e.path, 1, k)) : k \in 1..(Len(e.path) - 1)} : e \in S}

RECURSIVE SubsetsUpTo(_, _)
SubsetsUpTo(U, k) ==
  IF k = 0 THEN {{}}
  ELSE LET smaller == SubsetsUpTo(U, k - 1)
       IN smaller \cup {s \cup {x} : s \in smaller, x \in U}

\* parsed values of a "dependencies" / "devDependencies" member
AbsentMember == [tag |-> "absent", keys |-> <<>>]

NotMapping == [tag |-> "notmapping", keys |-> <<>>]

Mapping(keys) == [tag |-> "mapping", keys |-> keys]

\* package.json contents: text json.load rejects, a JSON array, a JSON object
NoPkg == [kind |-> "none", dependencies |-> AbsentMember, devDependencies |-> AbsentMember]

MalformedPkg == [kind |-> "malformed", dependencies |-> AbsentMember, devDependencies |-> AbsentMember]

ArrayPkg == [kind |-> "array", dependencies |-> AbsentMember, devDependencies |-> AbsentMember]

ObjectPkg(deps, dev) == [kind |-> "object", dependencies |-> deps, devDependencies |-> dev]

\* dependency names, in the order a manifest declares them
DepPool ==
  << "lodash", "express", "axios", "vue", "jest", "react", "next", "eslint", "chalk",
     "debug", "moment", "uuid", "yargs", "zod", "ws", "ora", "glob", "mime", "qs" >>

MaxDeps == 12

MaxStart == 2

Slice(start, len) == SubSeq(DepPool, start, start + len - 1)

DepVals ==
  {AbsentMember, NotMapping}
    \cup {Mapping(Slice(s, l)) : s \in 1..MaxStart, l \in 0..MaxDeps}

DevVals == {AbsentMember, NotMapping} \cup {Mapping(Slice(5, l)) : l \in 0..MaxDeps}

AllPkgs == {MalformedPkg, ArrayPkg} \cup {ObjectPkg(d, v) : d \in DepVals, v \in DevVals}

SmallPkgs ==
  {MalformedPkg, ObjectPkg(AbsentMember, AbsentMember),
   ObjectPkg(Mapping(<<"react">>), AbsentMember)}

\* requirements.txt contents
DefaultReq ==
  << <<"f", "l", "a", "s", "k", "=", "=", "2", ".", "0", ".", "1", "\n">>,
     <<"#", " ", "c", "\n">>,
     <<"\n">>,
     <<"q", "s", ">", "=", "6", "\n">> >>

LineAlphabet == {"a", "#", "=", ">", " "}

MaxLineLen == 3

MaxReqLines == 24

\* all lines of 1..MaxLineLen characters, each ended by a newline
ShortLines ==
  {l \o <<"\n">> : l \in UNION {[1..n -> LineAlphabet] : n \in 1..MaxLineLen}}

\* line i of a longer file: a comment every 5th line, a blank every 7th, else a pin
PatternLine(i) ==
  IF i % 5 = 0 THEN <<"#", " ", LowerCase[i], "\n">>
  ELSE IF i % 7 = 0 THEN <<" ", "\n">>
  ELSE IF i % 2 = 0 THEN <<LowerCase[i], "=", "=", "1", "\n">>
  ELSE <<LowerCase[i], "x", " ", ">", "=", "2", "\n">>

\* a file with more names than the pip list holds
LongReq == [i \in 1..MaxReqLines |-> PatternLine(i)]

AllReqs ==
  {<<l>> : l \in ShortLines} \cup {[i \in 1..n |-> PatternLine(i)] : n \in 0..MaxReqLines}

\* root-level marker files
MarkerNames ==
  { n_package_json, n_Cargo_toml, n_go_mod, n_pom_xml, n_build_gradle, n_requirements_txt,
    n_pyproject_toml, n_setup_py, n_Gemfile, n_App_csproj, n_App_csproj_user }

MaxMarkers == 2

\* entries exercising hidden names, the ignore set and the depth bounds
WalkUniverse ==
  { File(<<n_main_py>>), File(<<n_B_PY>>), File(<<n_b_js>>), File(<<n_dot_env>>),
    File(<<n_dot_env_example>>), File(<<n_dot_eslintrc>>), File(<<n_bin>>),
    File(<<n_node_modules, n_index_js>>), File(<<n_node_modules, n_README_md>>),
    File(<<n_src, n_index_ts>>), File(<<n_src, n_tsconfig_json>>),
    File(<<n_src, n_vendor, n_app_js>>), File(<<n_src, n_lib, n_Dockerfile>>),
    File(<<n_dot_cache, n_main_py>>),
    File(<<n_d, n_d, n_README_md>>), File(<<n_d, n_d, n_d, n_notes>>),
    File(<<n_d, n_d, n_d, n_d, n_d, n_x_go>>),
    File(<<n_d, n_d, n_d, n_d, n_d, n_d, n_main_go>>) }

MaxWalkEntries == 2

DeniedCandidates == {Root, <<n_src>>, <<n_d>>}

\* names of the children of a crowded directory, not in sorted order
BulkNames ==
  << "m", "B", "z", "a", "Q", "k", "c", "X", "t", "e", "R", "h", "o", "D", "w", "g",
     "J", "y", "b", "N", "s", "f", "U", "p", "i", "V" >>

MaxBulk == 22

BulkParents == {Root, <<n_src>>, <<n_src, n_lib>>}

\* n children of parent: every third one a directory, the first one not empty
BulkEntries(parent, n) ==
  (IF parent = Root THEN {} ELSE {Dir(parent)})
    \cup {IF i % 3 = 1 THEN Dir(parent \o << <<BulkNames[i]>> >>)
                       ELSE File(parent \o << <<BulkNames[i]>> >>) : i \in 1..n}
    \cup (IF n > 0 THEN {File(parent \o << <<BulkNames[1]>>, n_notes >>)} ELSE {})

\* the contents of the manifests a tree t holds at its root
PkgChoices(t, pkgs) == IF File(<<n_package_json>>) \in t THEN pkgs ELSE {NoPkg}

ReqChoices(t, reqs) == IF File(<<n_requirements_txt>>) \in t THEN reqs ELSE {<<>>}

InitMarkers ==
  \E ms \in SubsetsUpTo(MarkerNames, MaxMarkers) :
    \E extra \in {{}, {File(<<n_a_py>>)}, {File(<<n_main_go>>)}} :
      /\ tree = {File(<<m>>) : m \in ms} \cup extra
      /\ denied = {}
      /\ pkg \in PkgChoices(tree, SmallPkgs)
      /\ req \in ReqChoices(tree, {DefaultReq})

InitPackageJson ==
  /\ tree = {File(<<n_package_json>>), File(<<n_requirements_txt>>), File(<<n_index_js>>)}
  /\ denied = {}
  /\ pkg \in AllPkgs
  /\ req \in {DefaultReq, LongReq}

InitRequirements ==
  /\ tree = {File(<<n_requirements_txt>>)}
  /\ denied = {}
  /\ pkg = NoPkg
  /\ req \in AllReqs

InitWalk ==
  \E S \in SubsetsUpTo(WalkUniverse, MaxWalkEntries) :
    /\ tree = Closure(S)
    /\ denied \in {{}} \cup {{p} : p \in {q \in DeniedCandidates : q = Root \/ Dir(q) \in tree}}
    /\ pkg = NoPkg
    /\ req = <<>>

InitBulk ==
  \E parent \in BulkParents, n \in 0..MaxBulk :
    /\ n <= Len(BulkNames)
    /\ tree = Closure(BulkEntries(parent, n))
    /\ denied = {}
    /\ pkg = NoPkg
    /\ req = <<>>

\* directories and files carrying the names _generate_architecture_notes looks for
NotesUniverse ==
  {Dir(<<n_components>>), Dir(<<n_src, n_components>>),
   Dir(<<n_api>>), File(<<n_routes>>), Dir(<<n_src, n_api>>),
   Dir(<<n_models>>), Dir(<<n_src, n_models>>),
   Dir(<<n_tests>>), Dir(<<n_test>>), Dir(<<n_src, n_tests>>),
   Dir(<<n_docs>>), Dir(<<n_src, n_docs>>), Dir(<<n_lib, n_docs>>)}

MaxNoteEntries == 2

InitNotes ==
  \E S \in SubsetsUpTo(NotesUniverse, MaxNoteEntries) :
    /\ tree = Closure(S)
    /\ denied = {}
    /\ pkg = NoPkg
    /\ req = <<>>

\* what sys.argv[1] can name
RootKinds == {"dir", "file", "missing"}

\* invocations with and without a path argument, the path naming anything
InitInvocation ==
  /\ tree = {}
  /\ denied = {}
  /\ pkg = NoPkg
  /\ req = <<>>
  /\ argc \in {1, 2}
  /\ root_kind \in RootKinds

----------------------------------------------------------------------------
(* The analyzer as a state machine: main() and one action per step of analyze() *)

NoReport ==
  [project_type |-> Unset, languages |-> <<>>, structure |-> <<>>, entry_points |-> <<>>,
   config_files |-> <<>>, dependencies |-> <<>>, architecture_notes |-> <<>>]

\* ProjectAnalyzer.__init__
Constructed ==
  /\ project_type = Unset
  /\ file_stats = <<>>
  /\ entry_points = <<>>
  /\ config_files = <<>>
  /\ dependencies = <<>>

\* an invocation naming a directory
ValidInvocation ==
  /\ argc = 2
  /\ root_kind = "dir"

Init ==
  /\ \/ InitMarkers /\ ValidInvocation
     \/ InitPackageJson /\ ValidInvocation
     \/ InitRequirements /\ ValidInvocation
     \/ InitWalk /\ ValidInvocation
     \/ InitBulk /\ ValidInvocation
     \/ InitNotes /\ ValidInvocation
     \/ InitInvocation
  /\ order \in EnumOrders
  /\ Constructed
  /\ pc = "main"
  /\ report = NoReport
  /\ first_report = NoReport
  /\ returned = NoReport
  /\ runs = 1
  /\ fresh = TRUE

\* report['entry_points'], ['config_files'] and ['dependencies'] are the analyzer's own
\* list and dicts: a later analyze() on the same object changes them in the report too
Aliased(r, eps, cfg, deps) ==
  IF fresh THEN r
  ELSE [r EXCEPT !.entry_points = eps, !.config_files = cfg, !.dependencies = deps]

\* main() up to the call of analyze(): the usage exit, else ProjectAnalyzer(project_path)
Main ==
  /\ pc = "main"
  /\ IF argc < 2
       THEN pc' = "usage"
       ELSE pc' = "scan"
  /\ project_type' = Unset
  /\ file_stats' = <<>>
  /\ entry_points' = <<>>
  /\ config_files' = <<>>
  /\ dependencies' = <<>>
  /\ UNCHANGED <<inputs, order, report, first_report, runs, fresh, returned>>

\* self._scan_directory(); iterdir on a root that is no directory raises
\* FileNotFoundError or NotADirectoryError, which the except clause does not catch
Scan ==
  /\ pc = "scan"
  /\ IF root_kind = "dir"
       THEN /\ file_stats' = _scan_directory(file_stats, Root, 0)
            /\ pc' = "identify"
       ELSE /\ pc' = "crashed"
            /\ UNCHANGED file_stats
  /\ UNCHANGED <<inputs, order, project_type, entry_points, config_files, dependencies,
                 report, first_report, runs, fresh, returned>>

\* self._identify_project_type(); iterdir on an unreadable root raises PermissionError
Identify ==
  /\ pc = "identify"
  /\ IF Root \in denied
       THEN pc' = "crashed" /\ UNCHANGED project_type
       ELSE /\ project_type' = _identify_project_type(RootFiles, pkg, file_stats, project_type)
            /\ pc' = "entry"
  /\ UNCHANGED <<inputs, order, file_stats, entry_points, config_files, dependencies,
                 report, first_report, runs, fresh, returned>>

\* self._find_entry_points()
FindEntry ==
  /\ pc = "entry"
  /\ entry_points' = _find_entry_points(entry_points)
  /\ first_report' = Aliased(first_report, entry_points', config_files, dependencies)
  /\ pc' = "config"
  /\ UNCHANGED <<inputs, order, project_type, file_stats, config_files, dependencies,
                 report, runs, fresh, returned>>

\* self._analyze_config_files()
AnalyzeConfig ==
  /\ pc = "config"
  /\ config_files' = _analyze_config_files(config_files)
  /\ first_report' = Aliased(first_report, entry_points, config_files', dependencies)
  /\ pc' = "deps"
  /\ UNCHANGED <<inputs, order, project_type, file_stats, entry_points, dependencies,
                 report, runs, fresh, returned>>

\* self._analyze_dependencies()
AnalyzeDeps ==
  /\ pc = "deps"
  /\ dependencies' = _analyze_dependencies(dependencies)
  /\ first_report' = Aliased(first_report, entry_points, config_files, dependencies')
  /\ pc' = "return"
  /\ UNCHANGED <<inputs, order, project_type, file_stats, entry_points, config_files,
                 report, runs, fresh, returned>>

\* the dict analyze() returns
Assemble ==
  [project_type |-> project_type,
   languages |-> file_stats,
   structure |-> _get_tree_structure,
   entry_points |-> entry_points,
   config_files |-> config_files,
   dependencies |-> dependencies,
   architecture_notes |-> _generate_architecture_notes]

\* the return statement; reading an unassigned self.project_type raises AttributeError
Return ==
  /\ pc = "return"
  /\ IF project_type = Unset
       THEN pc' = "crashed" /\ UNCHANGED <<report, first_report, returned>>
       ELSE /\ report' = Assemble
            /\ first_report' = IF runs = 1 THEN Assemble ELSE first_report
            /\ returned' = IF runs = 1 THEN Assemble ELSE returned
            /\ pc' = "done"
  /\ UNCHANGED <<inputs, order, project_type, file_stats, entry_points, config_files,
                 dependencies, runs, fresh>>

\* the program is run again on the same tree: a new process and a new ProjectAnalyzer;
\* the filesystem may enumerate in another order
NewRun ==
  /\ pc = "done"
  /\ runs = 1
  /\ order' \in EnumOrders
  /\ project_type' = Unset
  /\ file_stats' = <<>>
  /\ entry_points' = <<>>
  /\ config_files' = <<>>
  /\ dependencies' = <<>>
  /\ report' = NoReport
  /\ runs' = 2
  /\ fresh' = TRUE
  /\ pc' = "main"
  /\ UNCHANGED <<inputs, first_report, returned>>

\* analyze() is called again on the same ProjectAnalyzer
AnalyzeAgain ==
  /\ pc = "done"
  /\ runs = 1
  /\ report' = NoReport
  /\ runs' = 2
  /\ fresh' = FALSE
  /\ pc' = "scan"
  /\ UNCHANGED <<inputs, order, project_type, file_stats, entry_points, config_files,
                 dependencies, first_report, returned>>

Next ==
  \/ Main
  \/ Scan
  \/ Identify
  \/ FindEntry
  \/ AnalyzeConfig
  \/ AnalyzeDeps
  \/ Return
  \/ NewRun
  \/ AnalyzeAgain

Spec == Init /\ [][Next]_vars

----------------------------------------------------------------------------
(* Properties *)

RECURSIVE SumCounts(_)
SumCounts(stats) == IF stats = <<>> THEN 0 ELSE Head(stats).count + SumCounts(Tail(stats))

\* the positions reached once _identify_project_type has returned
Identified == pc \in {"entry", "config", "deps", "return", "done"}

\* hidden: a leading dot, the two environment-file names excepted
HiddenName(n) == n[1] = "." /\ n # n_dot_env /\ n # n_dot_env_example

\* the directories on the way from the root to entry p, the root included
DirsAbove(p) == {SubSeq(p, 1, k) : k \in 0..(Len(p) - 1)}

\* p lies inside a directory whose name is in the IgnoreSet
UnderIgnored(p) == \E k \in 1..(Len(p) - 1) : p[k] \in ignore_dirs

\* the files the statistics walk has to count: not hidden, not below a hidden or an
\* ignored directory, in a directory at depth 0..5 that can be enumerated
CountedFiles ==
  {e \in tree :
     /\ e.kind = "file"
     /\ Len(e.path) - 1 <= 5
     /\ \A k \in 1..Len(e.path) : ~HiddenName(e.path[k])
     /\ ~UnderIgnored(e.path)
     /\ DirsAbove(e.path) \cap denied = {}}

\* C1: after the statistics walk of a new analyzer, the histogram counts every
\* non-hidden, non-ignored file within the depth bound once, under its lowercase
\* extension, and counts nothing else: the counts add up to the number of such files.
C1_HistogramCountsFiles ==
  (pc \notin {"main", "scan"} /\ fresh) =>
    /\ SumCounts(file_stats) = Cardinality(CountedFiles)
    /\ \A i \in 1..Len(file_stats) :
         /\ file_stats[i].count =
              Cardinality({e \in CountedFiles : Lower(Suffix(NameOf(e.path))) = file_stats[i].ext})
         /\ file_stats[i].count > 0
         /\ \A j \in 1..Len(file_stats) : file_stats[j].ext = file_stats[i].ext => j = i

\* C1 witness: a file in a directory at depth 5 was counted, one at depth 6 was not
C1_Witness ==
  /\ pc = "identify"
  /\ File(<<n_d, n_d, n_d, n_d, n_d, n_x_go>>) \in tree
  /\ File(<<n_d, n_d, n_d, n_d, n_d, n_d, n_main_go>>) \in tree
  /\ denied = {}
  /\ file_stats = <<[ext |-> n_dot_go, count |-> 1]>>

NodeLabels ==
  {"React/Next.js Project", "Vue.js Project", "Node.js/Express Project", "Node.js Project",
   "JavaScript Project"}

\* a C# project file: a name with the extension .csproj
IsCsproj(n) == Suffix(n) = n_dot_csproj

\* C2: the label is that of the earliest marker present at root, in the fixed order
\* package.json, Cargo.toml, go.mod, pom.xml/build.gradle,
\* requirements.txt/pyproject.toml/setup.py, Gemfile, C# project file; the
\* extension-majority fallback is used only when no marker is present.
C2_FirstMatchWins ==
  (Identified /\ fresh) =>
    LET rf == {NameOf(e.path) : e \in {x \in tree : x.kind = "file" /\ Len(x.path) = 1}}
    IN IF n_package_json \in rf THEN project_type \in NodeLabels
       ELSE IF n_Cargo_toml \in rf THEN project_type = "Rust Project"
       ELSE IF n_go_mod \in rf THEN project_type = "Go Project"
       ELSE IF n_pom_xml \in rf \/ n_build_gradle \in rf THEN project_type = "Java Project"
       ELSE IF n_requirements_txt \in rf \/ n_pyproject_toml \in rf \/ n_setup_py \in rf
         THEN project_type = "Python Project"
       ELSE IF n_Gemfile \in rf THEN project_type = "Ruby Project"
       ELSE IF \E n \in rf : IsCsproj(n) THEN project_type = "C# Project"
       ELSE project_type = FallbackType(file_stats)

\* C3: a package.json that parses (an object whose dependency members, when present,
\* are objects) always yields one of the four Node labels, chosen by the combined
\* dependency names, and analyze() never fails for want of a project type.
C3_ParsedManifestLabelled ==
  (/\ File(<<n_package_json>>) \in tree
   /\ pkg.kind = "object"
   /\ pkg.dependencies.tag # "notmapping"
   /\ pkg.devDependencies.tag # "notmapping"
   /\ Root \notin denied) =>
    /\ pc # "crashed"
    /\ Identified =>
         LET names == Range(pkg.dependencies.keys) \cup Range(pkg.devDependencies.keys)
         IN project_type =
              IF "react" \in names \/ "next" \in names THEN "React/Next.js Project"
              ELSE IF "vue" \in names THEN "Vue.js Project"
              ELSE IF "express" \in names THEN "Node.js/Express Project"
              ELSE "Node.js Project"

n_flask == <<"f", "l", "a", "s", "k">>

n_qs == <<"q", "s">>

\* C4: with a package.json that cannot be parsed the run is not aborted; the report
\* says 'JavaScript Project', its dependencies have no 'npm' key, and the other
\* sections, the 'pip' list of a requirements.txt included, are produced as usual.
C4_MalformedManifestDegrades ==
  (File(<<n_package_json>>) \in tree /\ pkg.kind = "malformed") =>
    /\ pc # "crashed"
    /\ Identified => project_type = "JavaScript Project"
    /\ pc = "done" =>
         /\ report.project_type = "JavaScript Project"
         /\ "npm" \notin DOMAIN report.dependencies
         /\ (req = DefaultReq /\ File(<<n_requirements_txt>>) \in tree) =>
              /\ "pip" \in DOMAIN report.dependencies
              /\ report.dependencies["pip"] = <<n_flask, n_qs>>
         /\ <<n_package_json>> \in DOMAIN report.config_files
         /\ SumCounts(report.languages) >= 1
         /\ Len(report.structure) = 1 + Cardinality(tree)

\* C4 witness: a finished run over a malformed package.json beside a requirements.txt
C4_Witness ==
  /\ pc = "done"
  /\ pkg.kind = "malformed"
  /\ req = DefaultReq
  /\ File(<<n_requirements_txt>>) \in tree
  /\ "pip" \in DOMAIN report.dependencies
  /\ "npm" \notin DOMAIN report.dependencies

\* blank lines and comment lines (leading '#') are skipped
SkippedLine(line) == (\A i \in 1..Len(line) : line[i] \in {" ", "\n"}) \/ line[1] = "#"

\* the positions of the lines of requirements.txt that are not skipped
KeptPositions == {i \in 1..Len(req) : ~SkippedLine(req[i])}

\* the position of the i-th line that is not skipped
NthKept(i) == CHOOSE j \in KeptPositions : Cardinality({k \in KeptPositions : k <= j}) = i

SmallerOf(a, b) == IF a < b THEN a ELSE b

\* s is the first min(Len(full), cap) elements of full, in the same order
IsCappedPrefix(s, full, cap) ==
  /\ Len(s) = SmallerOf(Len(full), cap)
  /\ \A i \in 1..Len(s) : s[i] = full[i]

\* C5: the recorded dependency lists never exceed their caps and are prefixes of the
\* source: the first min(n, 10) declared names for each npm category, the first
\* min(n, 15) extracted names for pip, skipped lines not counting.
C5_CappedPrefixes ==
  (pc \in {"return", "done"} /\ fresh) =>
    /\ "npm" \in DOMAIN dependencies =>
         /\ IsCappedPrefix(dependencies["npm"].dependencies, pkg.dependencies.keys, 10)
         /\ IsCappedPrefix(dependencies["npm"].devDependencies, pkg.devDependencies.keys, 10)
    /\ "pip" \in DOMAIN dependencies =>
         /\ Len(dependencies["pip"]) = SmallerOf(Cardinality(KeptPositions), 15)
         /\ \A i \in 1..Len(dependencies["pip"]) :
              dependencies["pip"][i] = PinStrip(req[NthKept(i)])

\* C5 witness: more than ten names in both npm categories and more than fifteen
\* requirement lines, all cut to the caps
C5_Witness ==
  /\ pc = "done"
  /\ "npm" \in DOMAIN dependencies
  /\ "pip" \in DOMAIN dependencies
  /\ Len(pkg.dependencies.keys) > 10
  /\ Len(pkg.devDependencies.keys) > 10
  /\ Cardinality(KeptPositions) > 15
  /\ Len(dependencies["npm"].dependencies) = 10
  /\ Len(dependencies["npm"].devDependencies) = 10
  /\ Len(dependencies["pip"]) = 15

\* the substring of line before the first occurrence of '==' or '>=', trimmed
BeforeFirstPin(line) ==
  LET pins == Occurrences(line, <<"=", "=">>) \cup Occurrences(line, <<">", "=">>)
  IN Strip(IF pins = {} THEN line ELSE SubSeq(line, 1, Min(pins) - 1))

\* C6: a blank line and a comment line yield no entry; every other line of
\* requirements.txt yields the substring before the first occurrence of either
\* '==' or '>=' in that line, trimmed.
C6_PinStripping ==
  (pc \in {"return", "done"} /\ fresh /\ "pip" \in DOMAIN dependencies) =>
    /\ Len(dependencies["pip"]) = SmallerOf(Cardinality(KeptPositions), 15)
    /\ \A i \in 1..Len(dependencies["pip"]) :
         dependencies["pip"][i] = BeforeFirstPin(req[NthKept(i)])

\* reading a rendered line: the connector's position gives the level below the root
ConnectorAt(line) == Min({i \in 1..Len(line) : line[i] \in {BoxUpRight, BoxVertRight}})

LevelOf(line) == ((ConnectorAt(line) - 1) \div 4) + 1

IsDirLine(line) == line[Len(line)] = "/"

\* the entry's name as printed, without the trailing separator of a directory
PrintedName(line) ==
  SubSeq(line, ConnectorAt(line) + 4, IF IsDirLine(line) THEN Len(line) - 1 ELSE Len(line))

\* lines i <= j of the rendered tree are children of the same directory
Siblings(lines, i, j) ==
  /\ LevelOf(lines[i]) = LevelOf(lines[j])
  /\ \A k \in i..j : LevelOf(lines[k]) >= LevelOf(lines[i])

\* C7: the rendered tree has no entry more than 3 levels below the root, at most 20
\* children under any directory, and within a directory all directories before all
\* files, each group in ascending order of name.
C7_TreeBounded ==
  pc = "done" =>
    LET lines == report.structure
        rows == 2..Len(lines)
    IN /\ \A i \in rows : LevelOf(lines[i]) <= 3
       /\ \A i \in rows : Cardinality({j \in rows : i <= j /\ Siblings(lines, i, j)}) <= 20
       /\ \A i \in rows : \A j \in rows :
            (i < j /\ Siblings(lines, i, j)) =>
              /\ IsDirLine(lines[i]) \/ ~IsDirLine(lines[j])
              /\ IsDirLine(lines[i]) = IsDirLine(lines[j]) =>
                   StrLess(PrintedName(lines[i]), PrintedName(lines[j]))

\* C7 witness: a directory two levels down holds more than 20 entries, directories
\* and files mixed, one of them not empty; 20 of them are rendered
C7_Witness ==
  /\ pc = "done"
  /\ Cardinality(ChildNames(<<n_src, n_lib>>)) > 20
  /\ File(<<n_src, n_lib, <<"m">>, n_notes>>) \in tree
  /\ Cardinality({i \in 2..Len(report.structure) : LevelOf(report.structure[i]) = 3}) = 20

\* C8: two runs of the program on the same unmodified tree yield the same project
\* type, whatever order the filesystem enumerates directory entries in.
C8_ClassificationDeterministic ==
  (pc = "done" /\ runs = 2 /\ fresh) => report.project_type = first_report.project_type

\* C9: nothing in a report comes from inside an IgnoreSet directory: no histogram
\* count, no entry point, no config-catalog key, no tree line.
C9_IgnoredDirsExcluded ==
  (pc = "done" /\ fresh) =>
    /\ \A i \in 1..Len(report.languages) :
         report.languages[i].count <=
           Cardinality({e \in tree : /\ e.kind = "file"
                                     /\ ~UnderIgnored(e.path)
                                     /\ Lower(Suffix(NameOf(e.path))) = report.languages[i].ext})
    /\ \A i \in 1..Len(report.entry_points) : ~UnderIgnored(report.entry_points[i])
    /\ \A p \in DOMAIN report.config_files : ~UnderIgnored(p)
    /\ \A i \in 2..Len(report.structure) :
         PrintedName(report.structure[i]) \in ignore_dirs => ~IsDirLine(report.structure[i])

\* the files of the root and of its immediate subdirectories named in the manifest table
ShallowManifests ==
  {e.path : e \in {x \in tree : /\ x.kind = "file"
                                /\ Len(x.path) <= 2
                                /\ NameOf(x.path) \in DOMAIN config_patterns
                                /\ DirsAbove(x.path) \cap denied = {}}}

\* C10: the config catalog has exactly one entry per manifest-table file lying in the
\* root or in a first-level subdirectory, keyed by its root-relative path and valued
\* with the table's description; no file two or more levels down has an entry.
C10_ConfigCatalogShallow ==
  pc \in {"deps", "return", "done"} =>
    /\ DOMAIN config_files = ShallowManifests
    /\ \A p \in DOMAIN config_files :
         /\ Len(p) <= 2
         /\ config_files[p] = config_patterns[p[Len(p)]]

\* C10 witness: a manifest in a first-level directory is cataloged, one a level
\* deeper is not
C10_Witness ==
  /\ pc = "deps"
  /\ File(<<n_src, n_tsconfig_json>>) \in tree
  /\ File(<<n_src, n_lib, n_Dockerfile>>) \in tree
  /\ DOMAIN config_files = {<<n_src, n_tsconfig_json>>}


----------------------------------------------------------------------------
\* the files the entry-point walk has to list: a candidate name, at any depth, not below
\* an ignored directory, in a directory that can be enumerated
EntryFiles ==
  {e.path : e \in {f \in tree :
                     /\ f.kind = "file"
                     /\ NameOf(f.path) \in entry_candidates
                     /\ ~UnderIgnored(f.path)
                     /\ DirsAbove(f.path) \cap denied = {}}}

\* C11: after the entry-point walk of a new analyzer, the entry-point list holds the
\* root-relative path of every file, at any depth, whose name is a candidate name and
\* that is not below an ignored directory; each such path once, and no other path.
C11_EntryPointsComplete ==
  (pc \in {"config", "deps", "return", "done"} /\ fresh) =>
    /\ Range(entry_points) = EntryFiles
    /\ Len(entry_points) = Cardinality(EntryFiles)

\* a candidate below six directories is listed while one inside node_modules is not
C11_Witness ==
  /\ pc = "done"
  /\ fresh
  /\ File(<<n_node_modules, n_index_js>>) \in tree
  /\ report.entry_points = << <<n_d, n_d, n_d, n_d, n_d, n_d, n_main_go>> >>

----------------------------------------------------------------------------
\* the invocation names no root, or a root that is no directory
InvalidRoot == argc < 2 \/ root_kind # "dir"

\* C12: the scan root is validated before any analysis operation runs: an invocation
\* whose root is missing, does not exist or is no directory stays in main() and ends on
\* the usage exit; it never enters analyze(), starts no walk and produces no report.
C12_RootValidatedFirst ==
  InvalidRoot =>
    /\ pc \in {"main", "usage"}
    /\ report = NoReport

----------------------------------------------------------------------------
\* C13: a permission failure while enumerating a directory is recovered locally: the
\* run never ends in an error, analyze() returns a report, no file at or below the
\* unreadable directory is counted or listed, and the files outside it all are.
C13_PermissionFailureLocal ==
  (denied # {} /\ fresh) =>
    /\ pc # "crashed"
    /\ pc = "done" =>
         /\ SumCounts(report.languages) = Cardinality(CountedFiles)
         /\ Range(report.entry_points) = EntryFiles
         /\ DOMAIN report.config_files = ShallowManifests

----------------------------------------------------------------------------
\* the names of the files directly in the root
RootFileNames == {NameOf(e.path) : e \in {x \in tree : x.kind = "file" /\ Len(x.path) = 1}}

\* a marker file of one of the seven rules lies in the root
MarkerAtRoot ==
  \E n \in RootFileNames :
    \/ n \in {n_package_json, n_Cargo_toml, n_go_mod, n_pom_xml, n_build_gradle,
              n_requirements_txt, n_pyproject_toml, n_setup_py, n_Gemfile}
    \/ IsCsproj(n)

\* the label the fixed table gives an extension
TableLabel(ext) == IF ext \in DOMAIN ext_map THEN ext_map[ext] ELSE "Unknown Project Type"

\* C14: with no marker file at root the label is the table's label of an extension
\* with the highest count, 'Unknown Project Type' when that extension is not in the
\* table or the histogram is empty; an empty directory is reported as Unknown with no
\* entry points and no config files.
C14_FallbackByMajority ==
  (Identified /\ fresh /\ ~MarkerAtRoot) =>
    /\ file_stats = <<>> => project_type = "Unknown Project Type"
    /\ file_stats # <<>> =>
         \E i \in 1..Len(file_stats) :
           /\ \A j \in 1..Len(file_stats) : file_stats[j].count <= file_stats[i].count
           /\ project_type = TableLabel(file_stats[i].ext)
    /\ (tree = {} /\ pc = "done") =>
         /\ report.project_type = "Unknown Project Type"
         /\ report.entry_points = <<>>
         /\ DOMAIN report.config_files = {}

----------------------------------------------------------------------------
\* the five layout conventions: the directory names of each and its note
Conventions ==
  {[names |-> {n_components}, note |-> "Frontend component-based architecture detected"],
   [names |-> {n_api, n_routes}, note |-> "API/routing layer present"],
   [names |-> {n_models}, note |-> "Data models layer detected"],
   [names |-> {n_tests, n_test}, note |-> "Test suite present"],
   [names |-> {n_docs}, note |-> "Documentation directory found"]}

\* C15: for each of the five conventions the notes hold the convention's note once if a
\* directory with one of its names lies in the root or directly in the root's src
\* directory, and not at all otherwise; the notes hold nothing else.
C15_NotesFollowConventions ==
  pc = "done" =>
    LET notes == report.architecture_notes
    IN /\ \A c \in Conventions :
            Cardinality({i \in 1..Len(notes) : notes[i] = c.note}) =
              IF \E n \in c.names : IsDir(<<n>>) \/ IsDir(<<n_src, n>>) THEN 1 ELSE 0
       /\ \A i \in 1..Len(notes) : \E c \in Conventions : notes[i] = c.note

----------------------------------------------------------------------------
\* row i of the rendered tree is the last rendered child of its directory
LastRendered(lines, i) == ~\E j \in (i + 1)..Len(lines) : Siblings(lines, i, j)

\* row k is a descendant of row i
Below(lines, i, k) == i < k /\ \A m \in (i + 1)..k : LevelOf(lines[m]) > LevelOf(lines[i])

\* C16: in every directory, whatever its size, the last rendered child line carries the
\* last-child connector and its descendants are indented with blanks at its level; every
\* earlier child line carries the intermediate connector and its descendants the
\* vertical continuation.
C16_LastChildConnector ==
  pc = "done" =>
    LET lines == report.structure
        rows == 2..Len(lines)
    IN \A i \in rows :
         LET at == ConnectorAt(lines[i])
         IN /\ lines[i][at] = (IF LastRendered(lines, i) THEN BoxUpRight ELSE BoxVertRight)
            /\ \A k \in rows :
                 Below(lines, i, k) =>
                   lines[k][at] = (IF LastRendered(lines, i) THEN " " ELSE BoxVert)

----------------------------------------------------------------------------
\* C17: no state carries over between two calls of analyze() on the same
\* ProjectAnalyzer over an unmodified tree: the second report equals the first, and
\* the first report still has the value it had when it was returned.
C17_SecondCallSameReport ==
  (pc = "done" /\ runs = 2 /\ ~fresh) =>
    /\ report = returned
    /\ first_report = returned
====
